---------------------------- MODULE Spec2Model ----------------------------
(***************************************************************************)
(* Model of main_wolfy.cc: the table of best known group-testing           *)
(* strategies t(n,d), its base cases, the merge of a solution file into    *)
(* it, the recursive derivation of neighbouring cells, and the two file    *)
(* encodings of a strategy.                                                *)
(*                                                                         *)
(* A test is a row: a sequence of the characters "1" (the animal is in the *)
(* test) and "." (it is not).  A key ND{n,d} is the pair <<n, d>>.         *)
(***************************************************************************)
EXTENDS Integers, Sequences, FiniteSets, TLC

VARIABLES
    file,       \* the solution file main reads: a sequence of grids
    argN,       \* the command line's N
    sff,        \* main's solutions_from_file
    m,          \* main's all_solutions
    pc,         \* main's position
    abort,      \* why the process stopped early ("" while it has not)
    mi,         \* number of entries of solutions_from_file merged so far
    stack,      \* the active calls of add_solutions_derived_from, innermost last
    last,       \* the last rule add_solutions_derived_from applied (history)
    outfile,    \* the detailed records write_solutions_to_file wrote
    pass,       \* which run of the program this is
    answer,     \* the strategy main prints
    cpc,        \* codec: position of the encode/decode experiment
    cstrat,     \* codec: the strategy and key being written
    ctext,      \* codec: the emathgroup text of cstrat
    cback       \* codec: what read_solutions_from_file made of ctext

vars == <<file, argN, sff, m, pc, abort, mi, stack, last, outfile, pass, answer,
          cpc, cstrat, ctext, cback>>

mainVars == <<file, argN, sff, m, pc, abort, mi, stack, last, outfile, pass, answer>>
codecVars == <<cpc, cstrat, ctext, cback>>

-----------------------------------------------------------------------------
(* Bounds of the model.                                                    *)

\* main seeds the table for n <= N + 100; the model scales that margin down.
Margin == 14
\* The command line's N ranges over 0..MaxArgN.
MaxArgN == 1
\* The program is run this many times in a row, each run on the file the
\* previous one wrote.
MaxPasses == 2
\* A solution file holds at most this many grids.
MaxGrids == 2
\* The deepest recursion of add_solutions_derived_from the model follows.
MaxDepth == 14
\* The codec is run on every matrix for up to this many animals.
MaxSmallN == 3
\* The number of bits of an unsigned long long.
WordBits == 64

-----------------------------------------------------------------------------
(* Strategy                                                                *)

\* With(value, Body): Body of the value, the value computed once.
With(value, Body(_)) == CHOOSE r \in {Body(v) : v \in {value}} : TRUE

Max(a, b) == IF a >= b THEN a ELSE b

Dots(n) == [i \in 1..n |-> "."]

\* Strategy(testvec, gb, bf): t is the number of rows given.
Strategy(testvec, gb, bf) ==
    [tests |-> testvec, t |-> Len(testvec),
     guaranteed_best |-> gb, belongs_in_file |-> bf]

isBetterThan(s, rhs) ==
    IF s.t # rhs.t THEN s.t < rhs.t
    ELSE IF s.guaranteed_best # rhs.guaranteed_best THEN s.guaranteed_best
    ELSE FALSE

empty_strategy == Strategy(<<>>, TRUE, FALSE)

RECURSIVE PerfectRows(_, _)
PerfectRows(n, bit) ==
    IF bit >= n THEN <<>>
    ELSE <<[i \in 1..n |-> IF ((i - 1) \div bit) % 2 = 1 THEN "1" ELSE "."]>>
         \o PerfectRows(n, 2 * bit)

perfect_strategy_for_one_wolf(n) == Strategy(PerfectRows(n, 1), TRUE, FALSE)

\* t is n-1 as given; the rows are produced by the loop i = 0 .. n-2.
worst_case_strategy(n, gb) ==
    [tests |-> [i \in 1..Max(n - 1, 0) |->
                    [j \in 1..n |-> IF j = i THEN "1" ELSE "."]],
     t |-> n - 1, guaranteed_best |-> gb, belongs_in_file |-> FALSE]

test_last_animal_individually(n, orig) ==
    [tests |-> [r \in 1..Len(orig.tests) |-> Append(orig.tests[r], ".")]
               \o <<Append(Dots(n), "1")>>,
     t |-> orig.t + 1, guaranteed_best |-> FALSE, belongs_in_file |-> FALSE]

\* counts[i]: the number of tests that hold animal i.
Counts(tests) ==
    [i \in 1..Len(tests[1]) |->
        Cardinality({r \in 1..Len(tests) : tests[r][i] = "1"})]

\* std::max_element: the first index holding the largest count.
MostTestedIdx(tests) ==
    With(Counts(tests),
         LAMBDA c : CHOOSE i \in 1..Len(c) :
                        /\ \A j \in 1..Len(c) : c[j] <= c[i]
                        /\ \A j \in 1..(i - 1) : c[j] < c[i])

MostTestedCount(tests) == Counts(tests)[MostTestedIdx(tests)]

EraseAt(row, idx) == [j \in 1..(Len(row) - 1) |-> IF j < idx THEN row[j] ELSE row[j + 1]]

RECURSIVE RemoveIf(_, _)
RemoveIf(tests, idx) ==
    IF tests = <<>> THEN <<>>
    ELSE IF Head(tests)[idx] = "1" THEN RemoveIf(Tail(tests), idx)
    ELSE <<Head(tests)>> \o RemoveIf(Tail(tests), idx)

\* The tests left of `kept` when the animal at idx is erased from each.
EraseColumn(kept, idx) ==
    [tests |-> [r \in 1..Len(kept) |-> EraseAt(kept[r], idx)],
     t |-> Len(kept), guaranteed_best |-> FALSE, belongs_in_file |-> FALSE]

\* The outcomes of replace_most_tested_animal(orig, with_wolf):
\*   "ub"     orig has no test, and tests[0] is read out of bounds;
\*   "assert" assert(most_tested_count >= 2) fails;
\*   "ok"     the strategy returned.
ReplaceOutcome(orig) ==
    IF orig.tests = <<>> THEN "ub"
    ELSE IF Len(orig.tests[1]) = 0 THEN "ub"
    ELSE IF MostTestedCount(orig.tests) < 2 THEN "assert"
    ELSE "ok"

replace_most_tested_animal_AlwaysWolf(orig, with_wolf) ==
    With(MostTestedIdx(orig.tests),
         LAMBDA idx : With(RemoveIf(orig.tests, idx),
                           LAMBDA kept : EraseColumn(kept, idx)))

replace_most_tested_animal(orig, with_wolf) ==
    With(MostTestedIdx(orig.tests),
         LAMBDA idx : IF with_wolf
                      THEN With(RemoveIf(orig.tests, idx),
                                LAMBDA kept : EraseColumn(kept, idx))
                      ELSE EraseColumn(orig.tests, idx))


-----------------------------------------------------------------------------
(* The table: std::map<ND, std::shared_ptr<Strategy>>                      *)

EmptyMap == [k \in {} |-> 0]

Insert(mm, key, s) ==
    [k \in (DOMAIN mm) \cup {key} |-> IF k \in DOMAIN mm THEN mm[k] ELSE s]

\* ND::operator< : by d, then by n.
NDLess(a, b) == a[2] < b[2] \/ (a[2] = b[2] /\ a[1] < b[1])

\* The i-th key of a map in iteration order.
KeyAt(mm, i) ==
    CHOOSE k \in DOMAIN mm :
        Cardinality({j \in DOMAIN mm : NDLess(j, k)}) = i - 1

\* overwrite_if_better(m, n, d, strategy): ret is the value returned, stop
\* names the assertion that failed ("" when none did), m is the map after.
overwrite_if_better_DropFlag(mm, n, d, strategy) ==
    LET key == <<n, d>>
    IN  IF ~(0 <= n /\ 0 <= d /\ d <= n)
        THEN [ret |-> FALSE, stop |-> "assert_key", m |-> mm]
        ELSE IF key \notin DOMAIN mm
        THEN [ret |-> FALSE, stop |-> "", m |-> mm]
        ELSE IF isBetterThan(strategy, mm[key])
        THEN IF mm[key].guaranteed_best
             THEN [ret |-> FALSE, stop |-> "assert_guaranteed_best", m |-> mm]
             ELSE [ret |-> TRUE, stop |-> "", m |-> [mm EXCEPT ![key] = strategy]]
        ELSE [ret |-> FALSE, stop |-> "", m |-> mm]

overwrite_if_better_NoGuard(mm, n, d, strategy) ==
    LET key == <<n, d>>
    IN  IF ~(0 <= n /\ 0 <= d /\ d <= n)
        THEN [ret |-> FALSE, stop |-> "assert_key", m |-> mm]
        ELSE IF key \notin DOMAIN mm
        THEN [ret |-> FALSE, stop |-> "", m |-> mm]
        ELSE IF isBetterThan(strategy, mm[key])
        THEN [ret |-> TRUE, stop |-> "",
              m |-> [mm EXCEPT ![key] =
                        [strategy EXCEPT !.belongs_in_file =
                            mm[key].belongs_in_file \/ strategy.belongs_in_file]]]
        ELSE [ret |-> FALSE, stop |-> "", m |-> mm]

overwrite_if_better_ReturnsTrue(mm, n, d, strategy) ==
    LET key == <<n, d>>
    IN  IF ~(0 <= n /\ 0 <= d /\ d <= n)
        THEN [ret |-> FALSE, stop |-> "assert_key", m |-> mm]
        ELSE IF key \notin DOMAIN mm
        THEN [ret |-> FALSE, stop |-> "", m |-> mm]
        ELSE IF isBetterThan(strategy, mm[key])
        THEN IF mm[key].guaranteed_best
             THEN [ret |-> FALSE, stop |-> "assert_guaranteed_best", m |-> mm]
             ELSE [ret |-> TRUE, stop |-> "",
                   m |-> [mm EXCEPT ![key] =
                            [strategy EXCEPT !.belongs_in_file =
                                mm[key].belongs_in_file \/ strategy.belongs_in_file]]]
        ELSE [ret |-> TRUE, stop |-> "", m |-> mm]

overwrite_if_better(mm, n, d, strategy) ==
    LET key == <<n, d>>
    IN  IF ~(0 <= n /\ 0 <= d /\ d <= n)
        THEN [ret |-> FALSE, stop |-> "assert_key", m |-> mm]
        ELSE IF key \notin DOMAIN mm
        THEN [ret |-> FALSE, stop |-> "", m |-> mm]
        ELSE IF isBetterThan(strategy, mm[key])
        THEN IF mm[key].guaranteed_best
             THEN [ret |-> FALSE, stop |-> "assert_guaranteed_best", m |-> mm]
             ELSE [ret |-> TRUE, stop |-> "",
                   m |-> [mm EXCEPT ![key] =
                            [strategy EXCEPT !.belongs_in_file =
                                mm[key].belongs_in_file \/ strategy.belongs_in_file]]]
        ELSE [ret |-> FALSE, stop |-> "", m |-> mm]

\* preserve_from_file(m, n, d, strategy): stop names the failed assertion.
preserve_from_file(mm, n, d, strategy) ==
    With(overwrite_if_better(Insert(mm, <<n, d>>, worst_case_strategy(n, FALSE)),
                             n, d, strategy),
         LAMBDA r :
            IF r.stop # "" THEN [stop |-> r.stop, m |-> r.m]
            ELSE IF ~r.ret THEN [stop |-> "assert_overwritten", m |-> r.m]
            ELSE [stop |-> "", m |-> r.m])

\* A grid of the file in the plain format: the header's n, d, t and
\* guaranteed_best, and the t lines after it.
Grid(n, d, gb, lines) == [n |-> n, d |-> d, t |-> Len(lines), gb |-> gb, lines |-> lines]

\* read_solutions_from_file, from grid i on.
RECURSIVE ReadFrom(_, _, _)
ReadFrom(f, i, mm) ==
    IF i > Len(f) THEN [stop |-> "", m |-> mm]
    ELSE LET g == f[i]
         IN  IF \E r \in 1..g.t : Len(g.lines[r]) # g.n
             THEN [stop |-> "assert_malformed", m |-> mm]
             ELSE With(preserve_from_file(mm, g.n, g.d,
                                          Strategy(g.lines, g.gb # 0, TRUE)),
                       LAMBDA r : IF r.stop # "" THEN r
                                  ELSE ReadFrom(f, i + 1, r.m))

read_solutions_from_file(f) == ReadFrom(f, 1, EmptyMap)

\* Strategy::to_string(n, d), as the grid it writes.
to_string(s, n, d) ==
    [n |-> n, d |-> d, t |-> s.t, gb |-> IF s.guaranteed_best THEN 1 ELSE 0,
     lines |-> s.tests]

\* The keys of K in the order of the map, ND::operator<.
RECURSIVE InOrder(_)
InOrder(K) ==
    IF K = {} THEN <<>>
    ELSE With(CHOOSE k \in K : \A j \in K : j = k \/ NDLess(k, j),
              LAMBDA k : <<k>> \o InOrder(K \ {k}))

\* The detailed records of write_solutions_to_file: one for each entry with
\* belongs_in_file, in map order (the model's n stays under 150, where the
\* plain format is written).
write_solutions_to_file(mm) ==
    With(InOrder({k \in DOMAIN mm : mm[k].belongs_in_file}),
         LAMBDA keys : [i \in 1..Len(keys) |-> to_string(mm[keys[i]], keys[i][1], keys[i][2])])

add_easy_solutions_OffByOne(max_n) ==
    [k \in {kk \in (0..(max_n - 1)) \X (0..(max_n - 1)) : kk[2] <= kk[1]} |->
        LET n == k[1]
            d == k[2]
        IN  IF d = 0 \/ d = n THEN empty_strategy
            ELSE IF d = 1 THEN perfect_strategy_for_one_wolf(n)
            ELSE IF d >= n \div 2 THEN worst_case_strategy(n, TRUE)
            ELSE worst_case_strategy(n, FALSE)]

add_easy_solutions_RealHalf(max_n) ==
    [k \in {kk \in (0..max_n) \X (0..max_n) : kk[2] <= kk[1]} |->
        LET n == k[1]
            d == k[2]
        IN  IF d = 0 \/ d = n THEN empty_strategy
            ELSE IF d = 1 THEN perfect_strategy_for_one_wolf(n)
            ELSE IF 2 * d >= n THEN worst_case_strategy(n, TRUE)
            ELSE worst_case_strategy(n, FALSE)]

\* add_easy_solutions(m, max_n) on the empty map.
add_easy_solutions(max_n) ==
    [k \in {kk \in (0..max_n) \X (0..max_n) : kk[2] <= kk[1]} |->
        LET n == k[1]
            d == k[2]
        IN  IF d = 0 \/ d = n THEN empty_strategy
            ELSE IF d = 1 THEN perfect_strategy_for_one_wolf(n)
            ELSE IF d >= n \div 2 THEN worst_case_strategy(n, TRUE)
            ELSE worst_case_strategy(n, FALSE)]

-----------------------------------------------------------------------------
(* verify_strategy.h: the verification of a strategy                       *)

\* The tests that hold animal i.
TestsOf(tests, i) == {r \in 1..Len(tests) : tests[r][i] = "1"}

\* The tests that come out positive when W are the wolves, given the tests
\* that hold each animal.
Outcome(testsOf, W) == UNION {testsOf[i] : i \in W}

\* No two sets of wolves of Ws give the same outcome: there are as many
\* outcomes as sets.
Separates(n, tests, Ws) ==
    With([i \in 1..n |-> TestsOf(tests, i)],
         LAMBDA testsOf : Cardinality({Outcome(testsOf, W) : W \in Ws}) = Cardinality(Ws))

WellFormed(n, tests) == \A r \in 1..Len(tests) : Len(tests[r]) = n

\* verify(N, D, tests) as the specification words it: every two distinct
\* wolf subsets of size <= D give different outcomes.
verify_strategy(n, d, tests) ==
    /\ WellFormed(n, tests)
    /\ With({W \in SUBSET (1..n) : Cardinality(W) <= d},
            LAMBDA Ws : Separates(n, tests, Ws))

\* The same for exactly D wolves, the problem the base cases solve
\* (t(n,n) = 0; the last animal of the worst case is found by elimination).
verify_exactly(n, d, tests) ==
    /\ WellFormed(n, tests)
    /\ With({W \in SUBSET (1..n) : Cardinality(W) = d},
            LAMBDA Ws : Separates(n, tests, Ws))

-----------------------------------------------------------------------------
(* add_solutions_derived_from, one rule per step                           *)

NoLast ==
    [rule |-> 0, pkey |-> <<0, 0>>, parent |-> empty_strategy, stale_t |-> 0,
     ckey |-> <<0, 0>>, cand |-> empty_strategy, outcome |-> "none",
     present |-> FALSE, installed |-> FALSE]

\* A call of add_solutions_derived_from(m, kv): n, d and t as read on entry,
\* where kv lives (main passes an element of solutions_from_file, the
\* recursive calls an element of m), and the rule the call is at.
Frame(n, d, t, src) == [n |-> n, d |-> d, t |-> t, src |-> src, rule |-> 1]

Top == stack[Len(stack)]

\* kv.second, read through the reference when it is used.
StrategyOf(f) == IF f.src = "file" THEN sff[<<f.n, f.d>>] ELSE m[<<f.n, f.d>>]

SetRule(k) == [stack EXCEPT ![Len(stack)].rule = k]

Stop(why) ==
    /\ pc' = "abort"
    /\ abort' = why
    /\ UNCHANGED <<m, stack>>

Propose_NoCascade(rule, n2, d2, cand, next) ==
    \E r \in {overwrite_if_better(m, n2, d2, cand)} :
        /\ last' = [rule |-> rule, pkey |-> <<Top.n, Top.d>>, parent |-> StrategyOf(Top),
                    stale_t |-> Top.t, ckey |-> <<n2, d2>>, cand |-> cand, outcome |-> "ok",
                    present |-> <<n2, d2>> \in DOMAIN m,
                    installed |-> r.ret]
        /\ IF r.stop # ""
           THEN Stop(r.stop)
           ELSE /\ m' = r.m
                /\ stack' = SetRule(next)
                /\ UNCHANGED <<pc, abort>>

\* if (overwrite_if_better(m, n2, d2, cand)) add_solutions_derived_from(m, *m.find(ND{n2, d2}));
Propose(rule, n2, d2, cand, next) ==
    \E r \in {overwrite_if_better(m, n2, d2, cand)} :
        /\ last' = [rule |-> rule, pkey |-> <<Top.n, Top.d>>, parent |-> StrategyOf(Top),
                    stale_t |-> Top.t, ckey |-> <<n2, d2>>, cand |-> cand, outcome |-> "ok",
                    present |-> <<n2, d2>> \in DOMAIN m,
                    installed |-> r.ret]
        /\ IF r.stop # ""
           THEN Stop(r.stop)
           ELSE /\ m' = r.m
                /\ stack' = IF r.ret
                            THEN Append(SetRule(next), Frame(n2, d2, r.m[<<n2, d2>>].t, "table"))
                            ELSE SetRule(next)
                /\ UNCHANGED <<pc, abort>>

\* replace_most_tested_animal did not return a strategy.
ReplaceFails(rule, n2, d2, outcome) ==
    /\ last' = [rule |-> rule, pkey |-> <<Top.n, Top.d>>, parent |-> StrategyOf(Top),
                stale_t |-> Top.t, ckey |-> <<n2, d2>>, cand |-> empty_strategy,
                outcome |-> outcome, present |-> <<n2, d2>> \in DOMAIN m,
                installed |-> FALSE]
    /\ \E how \in (IF outcome = "ub" THEN {"crash", "assert_most_tested_count"}
                   ELSE {"assert_most_tested_count"}) : Stop(how)

Skip(next) ==
    /\ stack' = SetRule(next)
    /\ last' = NoLast
    /\ UNCHANGED <<m, pc, abort>>

InCall(k) == pc = "derive" /\ stack # <<>> /\ Top.rule = k /\ Len(stack) < MaxDepth

RuleFrame == UNCHANGED <<file, argN, sff, mi, outfile, pass, answer, codecVars>>

\* The condition under which a call for (n, d), which read t on entry and
\* now sees strategy s, applies rule k.
RuleApplies(k, n, d, t, s) ==
    CASE k = 1 -> 2 <= d /\ d < n /\ t < n - 1
      [] k = 2 -> 2 <= d /\ d < n /\ t < n - 1 /\ d - 1 >= 2
      [] k = 3 -> 2 < d /\ d < n - 1 /\ t < n - 1
      [] k = 4 -> 2 <= d /\ d < n /\ t < n - 1
      [] k = 5 -> s.t = n - 1

\* The key rule k proposes its candidate for.
RuleTarget(k, n, d) ==
    CASE k = 1 -> <<n - 1, d>>
      [] k = 2 -> <<n - 1, d - 1>>
      [] k = 3 -> <<n, d - 1>>
      [] k = 4 -> <<n + 1, d>>
      [] k = 5 -> <<n + 2, d + 1>>

\* The candidate rule k makes of s.
RuleCandidate(k, n, d, s) ==
    CASE k = 1 -> replace_most_tested_animal(s, FALSE)
      [] k = 2 -> replace_most_tested_animal(s, TRUE)
      [] k = 3 -> [tests |-> s.tests, t |-> s.t,
                   guaranteed_best |-> FALSE, belongs_in_file |-> FALSE]
      [] k = 4 -> test_last_animal_individually(n, s)
      [] k = 5 -> worst_case_strategy(n + 2, s.guaranteed_best)

\* Rule k of the innermost call; `skip` is where the call goes on when the
\* rule's condition is false, `next` where it goes on after the rule.
ApplyRule(k, skip, next) ==
    \E f \in {Top} : \E s \in {StrategyOf(f)} : \E key \in {RuleTarget(k, f.n, f.d)} :
        IF ~RuleApplies(k, f.n, f.d, f.t, s)
        THEN Skip(skip)
        ELSE IF k \in {1, 2} /\ ReplaceOutcome(s) # "ok"
        THEN ReplaceFails(k, key[1], key[2], ReplaceOutcome(s))
        ELSE \E cand \in {RuleCandidate(k, f.n, f.d, s)} :
                Propose(k, key[1], key[2], cand, next)

\* Lines 331-337: column deletion, for (n-1, d).
Rule1 == InCall(1) /\ ApplyRule(1, 3, 2) /\ RuleFrame

\* Lines 338-343: column deletion with the animal taken to be a wolf, for (n-1, d-1).
Rule2 == InCall(2) /\ ApplyRule(2, 3, 3) /\ RuleFrame

\* Lines 345-356: the same tests, for (n, d-1).
Rule3 == InCall(3) /\ ApplyRule(3, 4, 4) /\ RuleFrame

\* Lines 357-361: one more animal, tested alone, for (n+1, d).
Rule4 == InCall(4) /\ ApplyRule(4, 5, 5) /\ RuleFrame

\* Lines 362-366: the worst case, for (n+2, d+1).
Rule5 == InCall(5) /\ ApplyRule(5, 6, 6) /\ RuleFrame

\* Line 367: the call returns; main's loop goes on when it was main's call.
Return ==
    /\ pc = "derive" /\ stack # <<>> /\ Top.rule = 6
    /\ stack' = SubSeq(stack, 1, Len(stack) - 1)
    /\ pc' = IF Len(stack) = 1 THEN "merge" ELSE "derive"
    /\ last' = NoLast
    /\ UNCHANGED <<file, argN, sff, m, abort, mi, outfile, pass, answer, codecVars>>

-----------------------------------------------------------------------------
(* main                                                                    *)

\* Line 409.
Read ==
    /\ pc = "read"
    /\ \E r \in {read_solutions_from_file(file)} :
           /\ sff' = r.m
           /\ abort' = r.stop
           /\ pc' = IF r.stop # "" THEN "abort" ELSE "seed"
    /\ UNCHANGED <<file, argN, m, mi, stack, last, outfile, pass, answer, codecVars>>

\* Lines 424-425.
Seed ==
    /\ pc = "seed"
    /\ m' = add_easy_solutions(argN + Margin)
    /\ pc' = "merge"
    /\ UNCHANGED <<file, argN, sff, abort, mi, stack, last, outfile, pass, answer, codecVars>>

\* Lines 426-428: the next element of solutions_from_file.
Merge ==
    /\ pc = "merge"
    /\ mi < Cardinality(DOMAIN sff)
    /\ \E k \in {KeyAt(sff, mi + 1)} : \E r \in {preserve_from_file(m, k[1], k[2], sff[k])} :
           /\ mi' = mi + 1
           /\ m' = r.m
           /\ abort' = r.stop
           /\ IF r.stop # ""
              THEN pc' = "abort" /\ stack' = stack
              ELSE pc' = "derive" /\ stack' = <<Frame(k[1], k[2], sff[k].t, "file")>>
    /\ last' = NoLast
    /\ UNCHANGED <<file, argN, sff, outfile, pass, answer, codecVars>>

\* Line 431.
Write ==
    /\ pc = "merge"
    /\ mi = Cardinality(DOMAIN sff)
    /\ outfile' = write_solutions_to_file(m)
    /\ pc' = "query"
    /\ UNCHANGED <<file, argN, sff, m, abort, mi, stack, last, pass, answer, codecVars>>

\* Lines 433-434, for the command line's D.
Query ==
    /\ pc = "query"
    /\ \E d \in 0..argN : answer' = m[<<argN, d>>]
    /\ pc' = "done"
    /\ UNCHANGED <<file, argN, sff, m, abort, mi, stack, last, outfile, pass, codecVars>>

\* The program is run again, on the file it wrote.
Rerun ==
    /\ pc = "done"
    /\ pass < MaxPasses
    /\ pass' = pass + 1
    /\ file' = outfile
    /\ pc' = "read"
    /\ sff' = EmptyMap
    /\ m' = EmptyMap
    /\ mi' = 0
    /\ stack' = <<>>
    /\ last' = NoLast
    /\ outfile' = <<>>
    /\ answer' = empty_strategy
    /\ UNCHANGED <<argN, abort, codecVars>>

-----------------------------------------------------------------------------
(* The solution files the program is run on                                *)

Ones(n) == [i \in 1..n |-> "1"]

\* t(8,2) <= 6: six tests that tell every two pairs of wolves apart.
Grid826 == Grid(8, 2, 0, <<<<".", ".", ".", ".", ".", "1", "1", "1">>, <<".", "1", ".", ".", "1", "1", ".", ".">>, <<".", ".", ".", "1", "1", ".", "1", ".">>, <<".", ".", "1", "1", ".", "1", ".", ".">>, <<".", "1", "1", ".", ".", ".", "1", ".">>, <<".", "1", ".", "1", ".", ".", ".", "1">>>>)

\* t(9,2) <= 7.
Grid927 == Grid(9, 2, 0, <<<<".", "1", ".", "1", ".", ".", ".", "1", ".">>, <<"1", ".", ".", "1", ".", ".", ".", ".", "1">>, <<".", ".", ".", "1", ".", ".", "1", ".", ".">>, <<"1", "1", ".", ".", ".", ".", "1", ".", ".">>, <<".", ".", "1", ".", ".", ".", "1", "1", ".">>, <<".", "1", ".", ".", "1", ".", ".", ".", ".">>, <<".", ".", "1", ".", "1", ".", ".", ".", "1">>>>)

\* t(10,2) <= 7.
Grid1027 == Grid(10, 2, 0, <<<<".", ".", "1", ".", ".", "1", ".", "1", ".", ".">>, <<".", "1", ".", ".", ".", ".", ".", "1", ".", "1">>, <<"1", ".", ".", ".", ".", ".", ".", ".", "1", "1">>, <<"1", "1", "1", ".", ".", ".", ".", ".", ".", ".">>, <<".", "1", ".", "1", ".", ".", "1", ".", ".", ".">>, <<".", ".", ".", "1", ".", "1", ".", ".", ".", "1">>, <<".", ".", ".", ".", ".", ".", "1", "1", "1", ".">>>>)

\* t(14,3) <= 12: twelve tests that tell every two sets of three wolves apart.
Grid14312 == Grid(14, 3, 0, <<<<"1", ".", "1", ".", "1", ".", ".", ".", ".", ".", ".", ".", ".", "1">>, <<".", "1", ".", "1", "1", ".", ".", ".", ".", "1", ".", ".", ".", ".">>, <<"1", ".", ".", ".", ".", "1", ".", "1", ".", "1", ".", ".", ".", ".">>, <<"1", "1", ".", ".", ".", ".", ".", ".", ".", ".", "1", "1", ".", ".">>, <<".", "1", "1", ".", ".", ".", ".", "1", ".", ".", ".", ".", "1", ".">>, <<".", ".", ".", "1", ".", ".", ".", "1", ".", ".", "1", ".", ".", "1">>, <<".", ".", "1", "1", ".", "1", ".", ".", ".", ".", ".", "1", ".", ".">>, <<".", ".", ".", ".", ".", ".", ".", ".", ".", "1", ".", "1", "1", "1">>, <<"1", ".", ".", "1", ".", ".", ".", ".", "1", ".", ".", ".", "1", ".">>, <<".", "1", ".", ".", ".", "1", ".", ".", "1", ".", ".", ".", ".", "1">>, <<".", ".", ".", ".", "1", ".", ".", "1", "1", ".", ".", "1", ".", ".">>, <<".", ".", "1", ".", ".", ".", ".", ".", "1", "1", "1", ".", ".", ".">>>>)

\* t(7,2) = 6, recorded as the proven optimum.
Grid726 == Grid(7, 2, 1, <<<<"1", ".", "1", ".", ".", "1", ".">>, <<"1", ".", ".", "1", "1", ".", ".">>, <<".", "1", "1", ".", "1", ".", ".">>, <<".", "1", ".", "1", ".", "1", ".">>, <<".", ".", "1", "1", ".", ".", "1">>, <<".", ".", ".", ".", "1", "1", "1">>>>)

\* t(4,2) = 3, the worst case, recorded as the proven optimum.
Grid423 == Grid(4, 2, 1, <<<<"1", ".", ".", ".">>, <<".", "1", ".", ".">>, <<".", ".", "1", ".">>>>)

\* Three tests for a key whose worst case is the proven optimum.
Grid523 == Grid(5, 2, 0, [r \in 1..3 |-> Ones(5)])

\* A grid with no test at all.
Grid620 == Grid(6, 2, 0, <<>>)

\* A grid in which no animal is in two tests.
Grid624 == Grid(6, 2, 0, <<<<"1", ".", ".", ".", ".", ".">>, <<".", "1", ".", ".", ".", ".">>, <<".", ".", "1", ".", ".", ".">>, <<".", ".", ".", "1", ".", ".">>>>)


\* A grid for more animals than any table of the model is seeded for.
GridFar == Grid(15, 2, 0, [r \in 1..13 |-> Ones(15)])

Pool == <<Grid423, Grid523, Grid620, Grid624, Grid726, Grid826, Grid927, Grid1027, Grid14312, GridFar>>

RECURSIVE Pick(_, _)
Pick(S, i) ==
    IF i > Len(Pool) THEN <<>>
    ELSE (IF i \in S THEN <<Pool[i]>> ELSE <<>>) \o Pick(S, i + 1)

\* The files: up to MaxGrids grids of the pool.
Files == {Pick(S, 1) : S \in {X \in SUBSET (1..Len(Pool)) : Cardinality(X) <= MaxGrids}}

-----------------------------------------------------------------------------
(* The emathgroup format: one hexadecimal word per animal                  *)

\* An unsigned long long is a function from bit positions 0..WordBits-1 to
\* {0, 1}, bit 0 the least significant.
AllOnesWord == [i \in 0..(WordBits - 1) |-> 1]

\* The inner loop of to_emathgroup_string for column c, from row t-1 down to
\* row 0: bits = (bits << 1) | (concrete_tests[r][c] == '1').  Row r ends at
\* bit r, and a row shifted past bit WordBits-1 is gone.
ColumnBits(tests, c, t) ==
    [i \in 0..(WordBits - 1) |-> IF i < t /\ tests[i + 1][c] = "1" THEN 1 ELSE 0]

\* A hexadecimal word is a sequence of digits 0..15, the most significant
\* first.
HexDigitsOfWord == WordBits \div 4

RECURSIVE StripZeros(_)
StripZeros(ds) == IF Len(ds) > 1 /\ ds[1] = 0 THEN StripZeros(Tail(ds)) ELSE ds

\* Strategy::to_hex: std::hex prints no leading zeros, and "0" for zero.
to_hex(bits) ==
    StripZeros([i \in 1..HexDigitsOfWord |->
        LET k == 4 * (HexDigitsOfWord - i)
        IN  bits[k] + 2 * bits[k + 1] + 4 * bits[k + 2] + 8 * bits[k + 3]])

\* The words of to_emathgroup_string from column c on, each with the
\* separator written before it; wordwrap is the length of the current line.
RECURSIVE EmitColumns(_, _, _)
EmitColumns(hexes, c, wordwrap) ==
    IF c > Len(hexes) THEN <<>>
    ELSE IF wordwrap + 1 + Len(hexes[c]) > 75
         THEN <<[sep |-> "\n", hex |-> hexes[c]]>>
              \o EmitColumns(hexes, c + 1, Len(hexes[c]))
         ELSE <<[sep |-> " ", hex |-> hexes[c]]>>
              \o EmitColumns(hexes, c + 1, wordwrap + 1 + Len(hexes[c]))

\* Strategy::to_emathgroup_string(n, d): the header line and the words.
to_emathgroup_string(s, n, d) ==
    [n |-> n, d |-> d, t |-> s.t, gb |-> IF s.guaranteed_best THEN 1 ELSE 0,
     words |-> With([c \in 1..n |-> to_hex(ColumnBits(s.tests, c, s.t))],
                    LAMBDA hexes : EmitColumns(hexes, 1, 10))]

\* Bit i of the number a hexadecimal word denotes.
BitOfHex(word, i) ==
    LET p == Len(word) - (i \div 4)
    IN  IF p < 1 THEN 0 ELSE (word[p] \div (2 ^ (i % 4))) % 2

\* sscanf("%llx") of a word.  A number that does not fit an unsigned long
\* long is undefined behaviour of sscanf: the library saturates or keeps the
\* low bits.
ScanOutcomes == {"saturate", "low_bits"}

sscanf_llx(word, scan) ==
    IF Len(StripZeros(word)) > HexDigitsOfWord /\ scan = "saturate"
    THEN AllOnesWord
    ELSE [i \in 0..(WordBits - 1) |-> BitOfHex(word, i)]

\* bits < (1uLL << t).  Shifting by WordBits or more is undefined behaviour:
\* the machine shifts by t modulo WordBits, or the result is 0, or the
\* compiler drops the comparison.
ShiftOutcomes == {"count_mod_width", "zero", "unchecked"}

BitsBelow(bits, t, shift) ==
    IF t < WordBits THEN \A i \in t..(WordBits - 1) : bits[i] = 0
    ELSE CASE shift = "count_mod_width" ->
                  \A i \in (t % WordBits)..(WordBits - 1) : bits[i] = 0
           [] shift = "zero" -> FALSE
           [] shift = "unchecked" -> TRUE

\* The loop that appends one character for the animal to each of the t
\* tests: test r gets bit 0 of bits, shifted right r times (zeros come in
\* from the left).
CellOf(bits, r) == IF r < WordBits /\ bits[r] = 1 THEN "1" ELSE "."

\* read_solutions_from_file on a file that holds one grid in the emathgroup
\* format: the table it fills, or the assertion that failed.
read_emathgroup(text, shift, scan) ==
    With([c \in 1..text.n |-> sscanf_llx(text.words[c].hex, scan)],
         LAMBDA words :
            IF \E c \in 1..text.n : ~BitsBelow(words[c], text.t, shift)
            THEN [stop |-> "assert_bits", m |-> EmptyMap]
            ELSE preserve_from_file(EmptyMap, text.n, text.d,
                    Strategy([r \in 1..text.t |->
                                [c \in 1..text.n |-> CellOf(words[c], r - 1)]],
                             text.gb # 0, TRUE)))

\* The strategy is written.
Encode ==
    /\ cpc = "encode"
    /\ ctext' = to_emathgroup_string(cstrat.s, cstrat.n, cstrat.d)
    /\ cpc' = "decode"
    /\ UNCHANGED <<cstrat, cback>>
    /\ UNCHANGED mainVars

\* The text is read.
Decode ==
    /\ cpc = "decode"
    /\ \E shift \in ShiftOutcomes, scan \in ScanOutcomes :
          cback' = read_emathgroup(ctext, shift, scan)
    /\ cpc' = "done"
    /\ UNCHANGED <<cstrat, ctext>>
    /\ UNCHANGED mainVars

\* The strategies written: those a table can hold with belongs_in_file set,
\* which are better than the worst case for their n.  The small ones are all
\* the matrices for 2..MaxSmallN animals; the large ones have about WordBits
\* tests.
Matrices(n, t) == [1..t -> [1..n -> {".", "1"}]]

SmallStrategiesFor(n) ==
    {[given |-> TRUE, n |-> n, d |-> 1, s |-> Strategy(tests, gb, TRUE)] :
        gb \in BOOLEAN, tests \in UNION {Matrices(n, t) : t \in 0..(n - 1)}}

SmallStrategies == UNION {SmallStrategiesFor(n) : n \in 2..MaxSmallN}

BigRows(n, t, kind) ==
    [r \in 1..t |-> [c \in 1..n |->
        CASE kind = "dots" -> "."
          [] kind = "ones" -> "1"
          [] kind = "diag" -> IF c = r THEN "1" ELSE "."
          [] kind = "last" -> IF r = t /\ c = 1 THEN "1" ELSE "."]]

BigStrategies ==
    {[given |-> TRUE, n |-> t + 2, d |-> 2, s |-> Strategy(BigRows(t + 2, t, kind), gb, TRUE)] :
        t \in {WordBits - 1, WordBits, WordBits + 1}, gb \in BOOLEAN,
        kind \in {"dots", "ones", "diag", "last"}}

CodecStrategies ==
    {x \in SmallStrategies \cup BigStrategies : x.s.t < x.n - 1 \/ x.s.guaranteed_best}

\* The texts read that the program did not write: words for 1, 2, 3,
\* 2^WordBits - 1 and 2^WordBits under headers with T = 0, 1, 2 and WordBits.
HexPool ==
    {<<0>>, <<1>>, <<2>>, <<3>>, [i \in 1..HexDigitsOfWord |-> 15],
     <<1>> \o [i \in 1..HexDigitsOfWord |-> 0]}

RawTexts ==
    {[n |-> n, d |-> 1, t |-> t, gb |-> 0,
      words |-> [c \in 1..n |-> [sep |-> " ", hex |-> IF c <= 2 THEN w[c] ELSE <<0>>]]] :
        n \in {4, WordBits + 2}, t \in {0, 1, 2}, w \in [1..2 -> HexPool]}
    \cup
    {[n |-> WordBits + 2, d |-> 1, t |-> WordBits, gb |-> 0,
      words |-> [c \in 1..(WordBits + 2) |->
                    [sep |-> " ", hex |-> IF c <= 2 THEN w[c] ELSE <<0>>]]] :
        w \in [1..2 -> HexPool]}

NoStrategy == [given |-> FALSE, n |-> 0, d |-> 0, s |-> empty_strategy]
NotRead == [stop |-> "", m |-> EmptyMap]

-----------------------------------------------------------------------------
(* The program                                                             *)

CodecIdle ==
    /\ cpc = "idle"
    /\ cstrat = NoStrategy
    /\ ctext = <<>>
    /\ cback = NotRead

Init ==
    /\ file \in Files
    /\ argN \in 0..MaxArgN
    /\ sff = EmptyMap
    /\ m = EmptyMap
    /\ pc = "read"
    /\ abort = ""
    /\ mi = 0
    /\ stack = <<>>
    /\ last = NoLast
    /\ outfile = <<>>
    /\ pass = 1
    /\ answer = empty_strategy
    /\ CodecIdle

Next ==
    \/ Read
    \/ Seed
    \/ Merge
    \/ Rule1
    \/ Rule2
    \/ Rule3
    \/ Rule4
    \/ Rule5
    \/ Return
    \/ Write
    \/ Query
    \/ Rerun

Spec == Init /\ [][Next]_vars

\* The process runs on its own: a step that can be taken is taken.
FairSpec == Init /\ [][Next]_vars /\ WF_vars(Next)

\* The codec on its own: main is not running.
MainIdle ==
    /\ file = <<>>
    /\ argN = 0
    /\ sff = EmptyMap
    /\ m = EmptyMap
    /\ pc = "idle"
    /\ abort = ""
    /\ mi = 0
    /\ stack = <<>>
    /\ last = NoLast
    /\ outfile = <<>>
    /\ pass = 1
    /\ answer = empty_strategy

CodecInit ==
    /\ MainIdle
    /\ cback = NotRead
    /\ \/ /\ cstrat \in CodecStrategies
          /\ ctext = <<>>
          /\ cpc = "encode"
       \/ /\ cstrat = NoStrategy
          /\ ctext \in RawTexts
          /\ cpc = "decode"

CodecNext ==
    \/ Encode
    \/ Decode

CodecSpec == CodecInit /\ [][CodecNext]_vars

-----------------------------------------------------------------------------
(* Claims                                                                  *)

\* C1 (as stated): a strategy installed by rules 1-5 tells apart every two
\* distinct wolf subsets of size <= D of its key, whenever the strategy it
\* was derived from does so for its own key.
C1_DerivationSoundAtMost ==
    (last.installed /\ verify_strategy(last.pkey[1], last.pkey[2], last.parent.tests))
        => verify_strategy(last.ckey[1], last.ckey[2], last.cand.tests)

\* C1 (amended): a strategy that rules 1-5 propose for a key, and so every
\* strategy they install, tells apart every two distinct sets of exactly D
\* wolves of that key, whenever the strategy it was derived from does so for
\* its own key.
C1_DerivationSoundExactly ==
    (last.outcome = "ok" /\ verify_exactly(last.pkey[1], last.pkey[2], last.parent.tests))
        => verify_exactly(last.ckey[1], last.ckey[2], last.cand.tests)

\* C1 witness: column deletion with the animal taken to be a wolf installed
\* a strategy derived from a strategy for three wolves that passes the
\* verification and has fewer tests than the worst case.
C1_Witness ==
    /\ last.installed
    /\ last.rule = 2
    /\ last.pkey[2] = 3
    /\ last.parent.t < last.pkey[1] - 1
    /\ verify_exactly(last.pkey[1], last.pkey[2], last.parent.tests)
    /\ m[last.ckey].tests = last.cand.tests

\* C2: within a run, no step raises the test count stored for a key, drops a
\* key, or replaces an entry marked guaranteed_best.
C2_DominanceMonotone ==
    [][pass' = pass =>
        \A k \in DOMAIN m :
            /\ k \in DOMAIN m'
            /\ m'[k].t <= m[k].t
            /\ (m[k].guaranteed_best => m'[k] = m[k])]_vars

\* C2 witness: an entry was overwritten by a strategy of fewer tests.
C2_Witness ==
    /\ pc = "derive"
    /\ last.installed
    /\ m[last.ckey].tests = last.cand.tests
    /\ m[last.ckey].t < last.ckey[1] - 1

\* The table right after add_easy_solutions.
JustSeeded == pc = "merge" /\ mi = 0

\* C3 (as stated): a seeded entry for 2 <= d < n is the worst case with n-1
\* tests, marked proven optimal exactly when d >= n/2 (so not for odd n with
\* d = (n-1)/2).
C3_BaseCaseFlagRealHalf ==
    JustSeeded =>
        \A k \in DOMAIN m :
            (2 <= k[2] /\ k[2] < k[1]) =>
                /\ m[k].t = k[1] - 1
                /\ m[k].tests = worst_case_strategy(k[1], FALSE).tests
                /\ (m[k].guaranteed_best <=> 2 * k[2] >= k[1])

\* C3 (amended): a seeded entry for 2 <= d < n is the worst case with n-1
\* tests, marked proven optimal exactly when d >= floor(n/2).
C3_BaseCaseFlagFloorHalf ==
    JustSeeded =>
        \A k \in DOMAIN m :
            (2 <= k[2] /\ k[2] < k[1]) =>
                /\ m[k].t = k[1] - 1
                /\ m[k].tests = worst_case_strategy(k[1], FALSE).tests
                /\ (m[k].guaranteed_best <=> k[2] >= k[1] \div 2)

\* C3 witness: the table is seeded, and holds odd n with d = (n-1)/2 marked
\* proven optimal beside an entry that is not.
C3_Witness ==
    /\ JustSeeded
    /\ m[<<7, 3>>].guaranteed_best
    /\ m[<<5, 2>>].guaranteed_best
    /\ ~m[<<7, 2>>].guaranteed_best

\* The run got past the merge of the file.
PassOver == pc \in {"query", "done"}

\* C4: when the table is built, an entry has belongs_in_file exactly when its
\* key was read from the file, and the file written holds one record per key
\* read, in key order, each the table's strategy for that key.
C4_WrittenBackProvenance ==
    PassOver =>
        /\ DOMAIN sff \subseteq DOMAIN m
        /\ \A k \in DOMAIN m : m[k].belongs_in_file <=> k \in DOMAIN sff
        /\ Len(outfile) = Cardinality(DOMAIN sff)
        /\ \A i \in 1..Len(outfile) :
              LET k == KeyAt(sff, i)
              IN  outfile[i] = [n |-> k[1], d |-> k[2], t |-> m[k].t,
                                gb |-> IF m[k].guaranteed_best THEN 1 ELSE 0,
                                lines |-> m[k].tests]

\* C4 witness: a key read from the file ends with a strategy derived from
\* another grid, and a derived entry sits at a key the file did not hold.
C4_Witness ==
    /\ PassOver
    /\ \E k \in DOMAIN sff : m[k].tests # sff[k].tests
    /\ \E k \in DOMAIN m \ DOMAIN sff : m[k].t < k[1] - 1 /\ k[2] >= 2

\* C6: no call of add_solutions_derived_from runs forever: whenever main's
\* call (and the calls nested in it) is running, it later is not, because it
\* returned or a failed assertion stopped the process; and the recursion
\* stays below the depth the model follows.
C6_CascadeTerminates ==
    /\ [](Len(stack) < MaxDepth)
    /\ (pc = "derive") ~> (pc # "derive")

\* C6 witness: a call made from a call made from main's call.
C6_Witness == pc = "derive" /\ Len(stack) >= 3

\* C7: rules 1 and 2 are applied only to a strategy with fewer than n-1
\* tests, with at least one test, whose most tested animal is in two tests
\* or more; the assertion of replace_most_tested_animal does not fail.
C7_ColumnDeletionPrecondition ==
    /\ abort \notin {"assert_most_tested_count", "crash"}
    /\ (last.rule \in {1, 2} /\ last.outcome # "none") =>
          /\ last.parent.t < last.pkey[1] - 1
          /\ last.parent.tests # <<>>
          /\ MostTestedCount(last.parent.tests) >= 2

\* Rule k applied to the table's entry for key yields no strictly better
\* strategy for its target key, when that key is in the table and in `range`.
NothingToGain(k, key, range) ==
    LET s == m[key]
        target == RuleTarget(k, key[1], key[2])
    IN  (RuleApplies(k, key[1], key[2], s.t, s) /\ target \in DOMAIN m /\ target \in range) =>
            /\ (k \in {1, 2} => ReplaceOutcome(s) = "ok")
            /\ ~isBetterThan(RuleCandidate(k, key[1], key[2], s), m[target])

\* C8 (as stated): when the table is built, no rule applied to any entry
\* yields a strictly better strategy for a key of the table.
C8_FixedPoint ==
    PassOver => \A key \in DOMAIN m : \A k \in 1..5 : NothingToGain(k, key, DOMAIN m)

\* The keys add_easy_solutions seeds.
SeededKeys == {k \in (0..(argN + Margin)) \X (0..(argN + Margin)) : k[2] <= k[1]}

\* C8 (amended): when the table is built, no rule applied to any entry
\* yields a strictly better strategy for a key of the seeded range.
C8_FixedPointOnSeeded ==
    PassOver => \A key \in DOMAIN m : \A k \in 1..5 : NothingToGain(k, key, SeededKeys)

\* C8 witness: the table is built and holds an entry, two calls away from
\* the file's grid, that beats the base case.
C8_Witness ==
    /\ PassOver
    /\ \E key \in DOMAIN m \ DOMAIN sff :
          /\ m[key].t < key[1] - 1
          /\ key[2] >= 2
          /\ \A g \in DOMAIN sff : g[2] = key[2] => (g[1] - key[1] >= 2 \/ key[1] - g[1] >= 2)

\* C9 (as stated): every candidate of rules 1, 2 and 4 is for a key the
\* table holds.
C9_LandsOnSeeded ==
    (last.rule \in {1, 2, 4} /\ last.outcome = "ok") => last.present

\* C9 (amended): every candidate of rules 1, 2 and 4 for a key within the
\* seeded range, n <= N + margin, is for a key the table holds.
C9_LandsOnSeededInRange ==
    (last.rule \in {1, 2, 4} /\ last.outcome = "ok" /\ last.ckey[1] <= argN + Margin)
        => last.present

\* C9 witness: row padding proposed a candidate for the last seeded n.
C9_Witness ==
    /\ last.rule = 4
    /\ last.outcome = "ok"
    /\ last.ckey[1] = argN + Margin
    /\ last.present

\* C10: main's merge of a grid read from the file never fails the assertion
\* of preserve_from_file.
C10_MergeSucceeds == ~(pc = "abort" /\ abort = "assert_overwritten" /\ mi >= 1)

\* C5: a strategy written by to_emathgroup_string and read back by
\* read_solutions_from_file comes back with the same tests, the same number
\* of tests and the same guaranteed_best, whatever its number of tests; and
\* reading fails on an assertion whenever a word of the text denotes a
\* number of 2^T or more.
C5_HexRoundTrip ==
    cpc = "done" =>
        /\ cstrat.given =>
              /\ cback.stop = ""
              /\ <<cstrat.n, cstrat.d>> \in DOMAIN cback.m
              /\ LET back == cback.m[<<cstrat.n, cstrat.d>>]
                 IN  /\ back.tests = cstrat.s.tests
                     /\ back.t = cstrat.s.t
                     /\ back.guaranteed_best = cstrat.s.guaranteed_best
        /\ (\E c \in 1..ctext.n : \E i \in ctext.t..(4 * Len(ctext.words[c].hex)) :
                BitOfHex(ctext.words[c].hex, i) = 1)
              => cback.stop = "assert_bits"

\* The part of C5 that holds: with fewer than WordBits tests, and words of
\* at most WordBits bits.
C5_HexRoundTripBelowWordBits ==
    (cpc = "done" /\ ctext.t < WordBits
        /\ \A c \in 1..ctext.n : Len(ctext.words[c].hex) <= HexDigitsOfWord) =>
        /\ cstrat.given =>
              /\ cback.stop = ""
              /\ <<cstrat.n, cstrat.d>> \in DOMAIN cback.m
              /\ LET back == cback.m[<<cstrat.n, cstrat.d>>]
                 IN  /\ back.tests = cstrat.s.tests
                     /\ back.t = cstrat.s.t
                     /\ back.guaranteed_best = cstrat.s.guaranteed_best
        /\ (\E c \in 1..ctext.n : \E i \in ctext.t..(4 * Len(ctext.words[c].hex)) :
                BitOfHex(ctext.words[c].hex, i) = 1)
              => cback.stop = "assert_bits"

=============================================================================
